---- MODULE Spec2Model ----
(***************************************************************************)
(* A model of libvips/iofuncs/sinkscreen.c: the asynchronous screen sink.  *)
(*                                                                         *)
(* Renders (sinks) own a tile cache; consumer threads fill output regions  *)
(* from the cache (region_fill) and close the output surfaces              *)
(* (render_close_cb); one background thread (render_thread_main) takes the *)
(* renders with dirty tiles off render_dirty_all and paints them with a    *)
(* pool of threads (render_allocate / render_work).                        *)
(*                                                                         *)
(* The image is modelled in one dimension: a row of tiles, the tile at     *)
(* pixel x covering [x, x + tile_width).                                   *)
(***************************************************************************)
EXTENDS Integers, Sequences, FiniteSets, TLC

(* ------------------------------------------------------------------ *)
(* Bounds of the model.                                                *)
(* ------------------------------------------------------------------ *)

\* Number of renders (calls of vips_sink_screen) of the scheduler specifications.
NRender == 2

\* region_fill calls a consumer makes on one render.
MaxReq == 3

\* Tiles across the image (grid cells) of the tile-cache specifications.
NCells == 3

\* Threads of the pool vips_threadpool_run starts for one paint pass.
NPool == 2

(* ------------------------------------------------------------------ *)
(* Parameters and constants of the program.                            *)
(* ------------------------------------------------------------------ *)

\* HAVE_THREADS
have_threads == TRUE

\* Render.tile_width (Render.tile_height is the height of the one row).
tile_width == 2

\* The range of int. (The model's own integers have 32 bits too, so the
\* bounds and the wrapped difference are put together from halves.)
Half32 == 2^30
Int32Min == (0 - Half32) - Half32
Int32Max == Half32 + (Half32 - 1)

\* x - y leaves the range of int.
SubOverflows(x, y) ==
    \/ y < 0 /\ x > Int32Max + y
    \/ y > 0 /\ x < Int32Min + y

\* The int x - y, as two's complement arithmetic gives it.
Sub32(x, y) ==
    IF y < 0 /\ x > Int32Max + y
    THEN ((x - Half32) - Half32) - ((y + Half32) + Half32)
    ELSE IF y > 0 /\ x < Int32Min + y
    THEN ((x + Half32) + Half32) - ((y - Half32) - Half32)
    ELSE x - y

Renders == 1 .. NRender

\* Thread identities: the consumer thread of render r is r.
Worker == NRender + 1

\* tile->area.left of the tiles of the grid.
AllCells == { i * tile_width : i \in 0 .. (NCells - 1) }

\* The contents of a pixel buffer nothing was computed into.
NoArea == 0 - 1

\* The contents of a part of the output region that im_region_paint( to,
\* &ovlap, 0 ) filled.
Zeros == 0 - 2

\* The contents of a part of the output region that the call has not
\* written: whatever the region's buffer held before.
Unwritten == 0 - 3

VARIABLES
    render,             \* the Render structs: [Renders -> record]
    render_dirty_all,   \* GSList of the renders with dirty tiles
    render_dirty_sem,   \* value of the semaphore render_dirty_sem
    render_dirty_lock,  \* holder of render_dirty_lock: {} or {thread}
    render_reschedule,  \* the flag render_reschedule
    client,             \* the consumer thread of each render
    worker,             \* the background thread render_thread_main
    pool_stop,          \* the stop flag of the running thread pool
    thread,             \* the threads of the pool
    freed,              \* times im_free( render ) ran, per render
    crashed,            \* the process was aborted
    asserts,            \* the g_assert()s that found their condition false
    notes,              \* calls of notify per render and area since the area was queued
    preempt,            \* a render of higher priority queued during the worker's pass
    arrival,            \* the renders of render_dirty_all, in the order they were added
    cfg                 \* the workload: what the consumers ask and what the producer does

vars == << render, render_dirty_all, render_dirty_sem, render_dirty_lock,
           render_reschedule, client, worker, pool_stop, thread, freed,
           crashed, asserts, notes, preempt, arrival, cfg >>

(* ------------------------------------------------------------------ *)
(* GSList                                                              *)
(* ------------------------------------------------------------------ *)

SetMin(S) == CHOOSE m \in S : \A n \in S : m <= n

g_slist_find(list, data) == \E i \in 1 .. Len(list) : list[i] = data

g_slist_prepend(list, data) == << data >> \o list

\* Removes the first node that holds data.
g_slist_remove(list, data) ==
    LET at == { i \in 1 .. Len(list) : list[i] = data }
    IN  IF at = {} THEN list
        ELSE SubSeq(list, 1, SetMin(at) - 1) \o SubSeq(list, SetMin(at) + 1, Len(list))

g_slist_last(list) == list[Len(list)]

(* ------------------------------------------------------------------ *)
(* The tile cache of one render R (a Render record).                    *)
(*   R.tile   the Tile structs, by tile number (1 .. R.ntiles)          *)
(*   R.all    GSList of tile numbers                                    *)
(*   R.dirty  GSList of tile numbers                                    *)
(*   R.tiles  the hash of tiles by position: area.left -> tile number,  *)
(*            0 where the hash holds nothing                            *)
(* A Tile is [area, painted, ticks, pix]: pix is the area whose pixels  *)
(* the tile's REGION holds (NoArea: none were computed into it).        *)
(* ------------------------------------------------------------------ *)

\* The pixels of a REGION after im_region_buffer( region, area ): the buffer
\* is kept when it already is one for that area, and is a new one otherwise.
im_region_buffer(T, area) == IF T.area = area THEN T.pix ELSE NoArea

tile_new(R) ==
    LET t == R.ntiles + 1
    IN  [R EXCEPT !.tile = Append(@, [area |-> 0, painted |-> FALSE,
                                      ticks |-> R.ticks, pix |-> NoArea]),
                  !.all = g_slist_prepend(@, t),
                  !.ntiles = @ + 1]

render_tile_lookup(R, area) == R.tiles[area]

tile_touch(R, t) ==
    LET R1 == [R EXCEPT !.tile[t].ticks = R.ticks, !.ticks = @ + 1]
    IN  IF ~R1.tile[t].painted /\ g_slist_find(R1.dirty, t)
        THEN [R1 EXCEPT !.dirty = g_slist_prepend(g_slist_remove(@, t), t)]
        ELSE R1

\* tile_queue without its g_slist_prepend: the tile is not put on dirty.
tile_queue_unqueued(R, t, area) ==
    [R EXCEPT !.tile[t].painted = FALSE,
              !.tile[t].pix = im_region_buffer(R.tile[t], area),
              !.tile[t].area = area,
              !.tiles[area] = t]

\* tile_queue up to the point where it either hands the tile to the
\* background thread (render_dirty_put) or paints it itself (im_prepare).
tile_queue(R, t, area) ==
    LET R1 == [R EXCEPT !.tile[t].painted = FALSE,
                        !.tile[t].pix = im_region_buffer(R.tile[t], area),
                        !.tile[t].area = area,
                        !.tiles[area] = t]
    IN  IF R.notify /\ have_threads
        THEN [R1 EXCEPT !.dirty = g_slist_prepend(@, t)]
        ELSE R1

\* The painted tiles of the hash.
PaintedTiles(R) == { t \in 1 .. R.ntiles :
                        /\ R.tile[t].painted
                        /\ \E a \in AllCells : R.tiles[a] = t }

\* tile_test_clean_ticks over the hash: the painted tile of least ticks, 0 if none.
render_tile_get_painted(R) ==
    IF PaintedTiles(R) = {} THEN 0
    ELSE CHOOSE t \in PaintedTiles(R) :
            \A u \in PaintedTiles(R) : R.tile[t].ticks <= R.tile[u].ticks

\* The tile render_tile_get_dirty returns, 0 if none.
render_tile_get_dirty(R) == IF R.dirty = << >> THEN 0 ELSE g_slist_last(R.dirty)

\* tile_request with a capacity test that is off by one (ntiles <= max_tiles).
tile_request_over(R, area, alloc) ==
    LET hit == render_tile_lookup(R, area)
        old == render_tile_get_painted(R)
        dty == render_tile_get_dirty(R)
    IN  IF hit # 0
        THEN IF ~R.tile[hit].painted
             THEN [R |-> tile_queue(R, hit, area), tile |-> hit, queued |-> TRUE]
             ELSE [R |-> R, tile |-> hit, queued |-> FALSE]
        ELSE IF R.ntiles <= R.max_tiles \/ R.max_tiles = -1
        THEN IF alloc
             THEN [R |-> tile_queue(tile_new(R), R.ntiles + 1, area),
                   tile |-> R.ntiles + 1, queued |-> TRUE]
             ELSE [R |-> R, tile |-> 0, queued |-> FALSE]
        ELSE IF old # 0
        THEN [R |-> tile_queue([R EXCEPT !.tiles[R.tile[old].area] = 0], old, area),
              tile |-> old, queued |-> TRUE]
        ELSE IF dty # 0
        THEN [R |-> tile_queue([R EXCEPT !.dirty = g_slist_remove(@, dty),
                                         !.tiles[R.tile[dty].area] = 0], dty, area),
              tile |-> dty, queued |-> TRUE]
        ELSE [R |-> R, tile |-> 0, queued |-> FALSE]

\* tile_request with the replacement step the other way round: a dirty tile
\* is tried before a painted one.
tile_request_dirty_first(R, area, alloc) ==
    LET hit == render_tile_lookup(R, area)
        old == render_tile_get_painted(R)
        dty == render_tile_get_dirty(R)
    IN  IF hit # 0
        THEN IF ~R.tile[hit].painted
             THEN [R |-> tile_queue(R, hit, area), tile |-> hit, queued |-> TRUE]
             ELSE [R |-> R, tile |-> hit, queued |-> FALSE]
        ELSE IF R.ntiles < R.max_tiles \/ R.max_tiles = -1
        THEN IF alloc
             THEN [R |-> tile_queue(tile_new(R), R.ntiles + 1, area),
                   tile |-> R.ntiles + 1, queued |-> TRUE]
             ELSE [R |-> R, tile |-> 0, queued |-> FALSE]
        ELSE IF dty # 0
        THEN [R |-> tile_queue([R EXCEPT !.dirty = g_slist_remove(@, dty),
                                         !.tiles[R.tile[dty].area] = 0], dty, area),
              tile |-> dty, queued |-> TRUE]
        ELSE IF old # 0
        THEN [R |-> tile_queue([R EXCEPT !.tiles[R.tile[old].area] = 0], old, area),
              tile |-> old, queued |-> TRUE]
        ELSE [R |-> R, tile |-> 0, queued |-> FALSE]

\* tile_request without its g_hash_table_remove: a reused tile keeps its old
\* key in tiles.
tile_request_stale_key(R, area, alloc) ==
    LET hit == render_tile_lookup(R, area)
        old == render_tile_get_painted(R)
        dty == render_tile_get_dirty(R)
    IN  IF hit # 0
        THEN IF ~R.tile[hit].painted
             THEN [R |-> tile_queue(R, hit, area), tile |-> hit, queued |-> TRUE]
             ELSE [R |-> R, tile |-> hit, queued |-> FALSE]
        ELSE IF R.ntiles < R.max_tiles \/ R.max_tiles = -1
        THEN IF alloc
             THEN [R |-> tile_queue(tile_new(R), R.ntiles + 1, area),
                   tile |-> R.ntiles + 1, queued |-> TRUE]
             ELSE [R |-> R, tile |-> 0, queued |-> FALSE]
        ELSE IF old # 0
        THEN [R |-> tile_queue(R, old, area), tile |-> old, queued |-> TRUE]
        ELSE IF dty # 0
        THEN [R |-> tile_queue([R EXCEPT !.dirty = g_slist_remove(@, dty)], dty, area),
              tile |-> dty, queued |-> TRUE]
        ELSE [R |-> R, tile |-> 0, queued |-> FALSE]

\* tile_request up to its call of tile_touch: [R, tile, queued], where tile is
\* 0 for a NULL return and queued says that tile_queue was called. alloc is
\* whether tile_new's allocations succeed.
tile_request(R, area, alloc) ==
    LET hit == render_tile_lookup(R, area)
        old == render_tile_get_painted(R)
        dty == render_tile_get_dirty(R)
    IN  IF hit # 0
        THEN IF ~R.tile[hit].painted
             THEN [R |-> tile_queue(R, hit, area), tile |-> hit, queued |-> TRUE]
             ELSE [R |-> R, tile |-> hit, queued |-> FALSE]
        ELSE IF R.ntiles < R.max_tiles \/ R.max_tiles = -1
        THEN IF alloc
             THEN [R |-> tile_queue(tile_new(R), R.ntiles + 1, area),
                   tile |-> R.ntiles + 1, queued |-> TRUE]
             ELSE [R |-> R, tile |-> 0, queued |-> FALSE]
        ELSE IF old # 0
        THEN [R |-> tile_queue([R EXCEPT !.tiles[R.tile[old].area] = 0], old, area),
              tile |-> old, queued |-> TRUE]
        ELSE IF dty # 0
        THEN [R |-> tile_queue([R EXCEPT !.dirty = g_slist_remove(@, dty),
                                         !.tiles[R.tile[dty].area] = 0], dty, area),
              tile |-> dty, queued |-> TRUE]
        ELSE [R |-> R, tile |-> 0, queued |-> FALSE]

(* ------------------------------------------------------------------ *)
(* The list of renders with dirty tiles.                                *)
(* ------------------------------------------------------------------ *)

\* The int b->priority - a->priority, as two's complement arithmetic gives it.
render_dirty_sort(a, b) == Sub32(render[b].priority, render[a].priority)

\* The subtraction of render_dirty_sort leaves the range of int.
SortOverflows(a, b) == SubOverflows(render[b].priority, render[a].priority)

RECURSIVE g_slist_sort_merge(_, _)
g_slist_sort_merge(l1, l2) ==
    IF l1 = << >> THEN l2
    ELSE IF l2 = << >> THEN l1
    ELSE IF render_dirty_sort(Head(l1), Head(l2)) <= 0
         THEN << Head(l1) >> \o g_slist_sort_merge(Tail(l1), l2)
         ELSE << Head(l2) >> \o g_slist_sort_merge(l1, Tail(l2))

\* GLib's merge sort: the first half is the shorter one.
RECURSIVE g_slist_sort(_)
g_slist_sort(list) ==
    IF Len(list) <= 1 THEN list
    ELSE g_slist_sort_merge(
            g_slist_sort(SubSeq(list, 1, Len(list) \div 2)),
            g_slist_sort(SubSeq(list, Len(list) \div 2 + 1, Len(list))))

\* The pairs g_slist_sort_merge hands to the compare function.
RECURSIVE MergeCompares(_, _)
MergeCompares(l1, l2) ==
    IF l1 = << >> \/ l2 = << >> THEN {}
    ELSE { << Head(l1), Head(l2) >> } \cup
         ( IF render_dirty_sort(Head(l1), Head(l2)) <= 0
           THEN MergeCompares(Tail(l1), l2)
           ELSE MergeCompares(l1, Tail(l2)) )

RECURSIVE SortCompares(_)
SortCompares(list) ==
    IF Len(list) <= 1 THEN {}
    ELSE SortCompares(SubSeq(list, 1, Len(list) \div 2)) \cup
         SortCompares(SubSeq(list, Len(list) \div 2 + 1, Len(list))) \cup
         MergeCompares(g_slist_sort(SubSeq(list, 1, Len(list) \div 2)),
                       g_slist_sort(SubSeq(list, Len(list) \div 2 + 1, Len(list))))

\* render_dirty_put adds the render: it has dirty tiles and is not in the list.
PutAdds(R, r) == R.dirty # << >> /\ ~g_slist_find(render_dirty_all, r)

\* render_dirty_all after render_dirty_put( r ), R being the Render of r.
PutList(R, r) ==
    IF PutAdds(R, r) THEN g_slist_sort(g_slist_prepend(render_dirty_all, r))
    ELSE render_dirty_all

\* A signed overflow in render_dirty_sort is undefined: a build that traps it
\* (-ftrapv) aborts in the sort of render_dirty_put( r ).
PutTraps(R, r) ==
    /\ PutAdds(R, r)
    /\ \E c \in SortCompares(g_slist_prepend(render_dirty_all, r)) :
          SortOverflows(c[1], c[2])

\* im_semaphore_up / im_semaphore_upn: the value after adding n.
im_semaphore_upn(v, n) == v + n

\* im_semaphore_down can pass: it waits while the value is below 1.
im_semaphore_down_ok(v) == v >= 1

(* ------------------------------------------------------------------ *)
(* Initial states.                                                      *)
(* ------------------------------------------------------------------ *)

\* The Render render_new returns (a mask adds a reference).
render_new(priority, max_tiles, notify, mask) ==
    [ ref_count |-> IF mask THEN 2 ELSE 1,
      priority  |-> priority,
      max_tiles |-> max_tiles,
      notify    |-> notify,
      lock      |-> {},
      all       |-> << >>,
      ntiles    |-> 0,
      ticks     |-> 0,
      dirty     |-> << >>,
      tiles     |-> [a \in AllCells |-> 0],
      tile      |-> << >> ]

\* A consumer that has made no call yet: out and mask say which of the two
\* images of its render are open.
NewClient(out, mask) ==
    [ pc |-> "idle", left |-> 0, x |-> 0, right |-> 0, bottom |-> 0, tile |-> 0,
      flag |-> FALSE, nreq |-> 0, out |-> out, mask |-> mask,
      ret |-> 0, failed |-> FALSE,
      outbuf |-> [a \in AllCells |-> Unwritten] ]

\* The state render_thread_create leaves: an empty list, the semaphore at 0,
\* the background thread about to wait.
InitScheduler ==
    /\ render_dirty_all = << >>
    /\ render_dirty_sem = 0
    /\ render_dirty_lock = {}
    /\ render_reschedule = FALSE
    /\ worker = [pc |-> "down", render |-> 0, flag |-> FALSE]
    /\ pool_stop = FALSE
    /\ thread = [p \in 1 .. NPool |-> [pc |-> "off", tile |-> 0, area |-> 0]]
    /\ crashed = FALSE
    /\ asserts = {}
    /\ notes = [r \in Renders |-> [a \in AllCells |-> 0]]
    /\ preempt = 0
    /\ arrival = << >>

\* The priorities the callers of vips_sink_screen pass.
Priorities == { Int32Min, 0, 1 }

\* A region_fill request: << left, width, height >> of out->valid (top is 0).
OneTile == << 0, tile_width, 1 >>

\* Two asynchronous renders of one tile each, of any priorities.
Init ==
    /\ InitScheduler
    /\ \E prio \in [Renders -> Priorities] :
          render = [r \in Renders |-> render_new(prio[r], 1, TRUE, FALSE)]
    /\ client = [r \in Renders |-> NewClient(TRUE, FALSE)]
    /\ freed = [r \in Renders |-> 0]
    /\ cfg = [rects |-> { OneTile }, fail |-> FALSE, nthreads |-> 1]

(* ------------------------------------------------------------------ *)
(* Steps shared by the threads.                                         *)
(* ------------------------------------------------------------------ *)

Scheduler == << render_dirty_all, render_dirty_sem, render_dirty_lock,
                render_reschedule, arrival >>

Pool == << pool_stop, thread >>

\* Every thread ends with the process.
Aborted ==
    /\ crashed' = TRUE
    /\ worker' = [worker EXCEPT !.pc = "aborted"]
    /\ client' = [r \in Renders |-> [client[r] EXCEPT !.pc = "aborted"]]

\* The process aborts: a g_assert that fails, or a trap.
Abort(name) ==
    /\ Aborted
    /\ asserts' = asserts \cup { name }
    /\ UNCHANGED << render, Scheduler, Pool, freed, notes, preempt, cfg >>

\* A g_assert: a build with G_DISABLE_ASSERT goes on when cond is false.
g_assert(cond, name) == asserts' = IF cond THEN asserts ELSE asserts \cup { name }

\* The worker is in a paint pass on a render: between render_dirty_get's
\* return and its render_dirty_put.
InPass == worker.render # 0 /\ worker.pc \in { "reschedule", "pool" }

\* render_dirty_put( r ) by thread th, up to the semaphore: the list, the
\* reschedule flag, and dirty_lock held. R is the Render of r.
render_dirty_put(R, r, th) ==
    /\ render_dirty_lock = {}
    /\ render_dirty_lock' = { th }
    /\ render_dirty_all' = PutList(R, r)
    /\ render_reschedule' = IF PutAdds(R, r) THEN TRUE ELSE render_reschedule
    /\ arrival' = IF PutAdds(R, r) THEN Append(arrival, r) ELSE arrival
    /\ UNCHANGED render_dirty_sem

\* The rest of render_dirty_put without its g_mutex_unlock: the thread keeps
\* render_dirty_lock.
render_dirty_put_up_locked(added) ==
    /\ render_dirty_sem' = IF added THEN im_semaphore_upn(render_dirty_sem, 1)
                           ELSE render_dirty_sem
    /\ UNCHANGED << render_dirty_lock, render_dirty_all, render_reschedule,
                    arrival >>

\* The rest of render_dirty_put: the semaphore, and the unlock.
render_dirty_put_up(added) ==
    /\ render_dirty_sem' = IF added THEN im_semaphore_upn(render_dirty_sem, 1)
                           ELSE render_dirty_sem
    /\ render_dirty_lock' = {}
    /\ UNCHANGED << render_dirty_all, render_reschedule, arrival >>

\* render_unref up to its call of render_free: the count after the decrement.
render_unref(R) == [R EXCEPT !.ref_count = @ - 1]

\* render_free( r ) by thread th, up to the semaphore: r leaves the list.
render_free_remove(r, th) ==
    /\ render_dirty_lock = {}
    /\ render_dirty_lock' = { th }
    /\ render_dirty_all' = g_slist_remove(render_dirty_all, r)
    /\ arrival' = g_slist_remove(arrival, r)
    /\ UNCHANGED << render_dirty_sem, render_reschedule >>

\* The Render after render_free freed its lists, its hash and its tiles.
render_free(R) ==
    [R EXCEPT !.all = << >>, !.ntiles = 0, !.dirty = << >>,
              !.tiles = [a \in AllCells |-> 0]]

(* ------------------------------------------------------------------ *)
(* The consumer thread of render r: region_fill and render_close_cb.    *)
(* ------------------------------------------------------------------ *)

\* The loops of region_fill have a cell left to visit.
Remaining(c) == c.x < c.right /\ 0 < c.bottom

\* The producer's prepare can fail only where the workload says so.
PrepareOutcomes == IF cfg.fail THEN { TRUE, FALSE } ELSE { TRUE }

\* tile_copy's g_assert: the tile's area and out->valid have pixels in common.
tile_copy_overlaps(c) == c.left < c.right /\ c.left < c.x + tile_width

\* The output region after tile_copy( tile, to ) for the cell at c.x, T being
\* the Tile: the tile's pixels when it is painted, zeros otherwise; nothing
\* is written when the overlap is empty.
tile_copy(c, T) ==
    IF tile_copy_overlaps(c)
    THEN [c.outbuf EXCEPT ![c.x] = IF T.painted THEN T.pix ELSE Zeros]
    ELSE c.outbuf

\* The end of one pass of region_fill's inner loop: tile_request's tile_touch,
\* tile_copy, and x += tile_width.
NextCell(r, R, t) ==
    /\ render' = [render EXCEPT ![r] = tile_touch(R, t)]
    /\ client' = [client EXCEPT ![r].pc = "fill", ![r].x = @ + tile_width,
                                ![r].tile = 0, ![r].flag = FALSE,
                                ![r].outbuf = tile_copy(client[r], R.tile[t])]
    /\ g_assert(tile_copy_overlaps(client[r]), "tile_copy")

\* region_fill is called and takes the render's lock.
RegionFill(r) ==
    \E rect \in cfg.rects :
        /\ client[r].pc = "idle"
        /\ client[r].out
        /\ client[r].nreq < MaxReq
        /\ render[r].lock = {}
        /\ render' = [render EXCEPT ![r].lock = { r }]
        /\ client' = [client EXCEPT
                        ![r].pc = "fill",
                        ![r].left = rect[1],
                        ![r].x = (rect[1] \div tile_width) * tile_width,
                        ![r].right = rect[1] + rect[2],
                        ![r].bottom = rect[3],
                        ![r].nreq = @ + 1,
                        ![r].failed = FALSE,
                        ![r].outbuf = [a \in AllCells |-> Unwritten]]
        /\ UNCHANGED << Scheduler, worker, Pool, freed, crashed, asserts,
                        notes, preempt, cfg >>

\* tile_request returns NULL: no tile could be made or reused.
TileRequestNull(r) ==
    \E alloc \in BOOLEAN :
        /\ client[r].pc = "fill"
        /\ Remaining(client[r])
        /\ tile_request(render[r], client[r].x, alloc).tile = 0
        /\ client' = [client EXCEPT ![r].x = @ + tile_width]
        /\ UNCHANGED << render, Scheduler, worker, Pool, freed, crashed,
                        asserts, notes, preempt, cfg >>

\* tile_request finds a painted tile at the position.
TileRequestHit(r) ==
    LET req == tile_request(render[r], client[r].x, TRUE)
    IN  /\ client[r].pc = "fill"
        /\ Remaining(client[r])
        /\ req.tile # 0
        /\ ~req.queued
        /\ NextCell(r, req.R, req.tile)
        /\ UNCHANGED << Scheduler, worker, Pool, freed, crashed, notes,
                        preempt, cfg >>

\* tile_request queues a tile of an asynchronous render: tile_queue, up to
\* the list update of its render_dirty_put.
TileRequestAsync(r) ==
    LET req == tile_request(render[r], client[r].x, TRUE)
    IN  /\ client[r].pc = "fill"
        /\ Remaining(client[r])
        /\ req.queued
        /\ render[r].notify /\ have_threads
        /\ render_dirty_put(req.R, r, r)
        /\ render' = [render EXCEPT ![r] = req.R]
        /\ client' = [client EXCEPT ![r].pc = "put", ![r].tile = req.tile,
                                    ![r].flag = PutAdds(req.R, r)]
        /\ notes' = [notes EXCEPT ![r][client[r].x] = 0]
        /\ preempt' = IF /\ PutAdds(req.R, r)
                         /\ InPass
                         /\ worker.render # r
                         /\ render[r].priority > render[worker.render].priority
                      THEN r ELSE preempt
        /\ UNCHANGED << worker, Pool, freed, crashed, asserts, cfg >>

\* The sort of render_dirty_put overflows in a build that traps.
TileRequestTrap(r) ==
    LET req == tile_request(render[r], client[r].x, TRUE)
    IN  /\ client[r].pc = "fill"
        /\ Remaining(client[r])
        /\ req.queued
        /\ render[r].notify /\ have_threads
        /\ render_dirty_lock = {}
        /\ PutTraps(req.R, r)
        /\ Abort("render_dirty_sort")

\* render_dirty_put returns to tile_queue, tile_queue to tile_request.
TileQueued(r) ==
    /\ client[r].pc = "put"
    /\ render_dirty_put_up(client[r].flag)
    /\ NextCell(r, render[r], client[r].tile)
    /\ UNCHANGED << worker, Pool, freed, crashed, notes, preempt, cfg >>

\* tile_request queues a tile of a synchronous render: tile_queue, up to its
\* call of im_prepare.
TileRequestSync(r) ==
    LET req == tile_request(render[r], client[r].x, TRUE)
    IN  /\ client[r].pc = "fill"
        /\ Remaining(client[r])
        /\ req.queued
        /\ ~(render[r].notify /\ have_threads)
        /\ render' = [render EXCEPT ![r] = req.R]
        /\ client' = [client EXCEPT ![r].pc = "prepare", ![r].tile = req.tile]
        /\ UNCHANGED << Scheduler, worker, Pool, freed, crashed, asserts,
                        notes, preempt, cfg >>

\* im_prepare returns to tile_queue, which ignores what it returns.
TilePrepared(r) ==
    \E ok \in PrepareOutcomes :
        LET t == client[r].tile
            R == [render[r] EXCEPT
                    !.tile[t].pix = IF ok THEN render[r].tile[t].area ELSE NoArea,
                    !.tile[t].painted = TRUE]
        IN  /\ client[r].pc = "prepare"
            /\ render' = [render EXCEPT ![r] = tile_touch(R, t)]
            /\ client' = [client EXCEPT ![r].pc = "fill", ![r].x = @ + tile_width,
                                        ![r].tile = 0,
                                        ![r].failed = @ \/ ~ok,
                                        ![r].outbuf = tile_copy(client[r], R.tile[t])]
            /\ g_assert(tile_copy_overlaps(client[r]), "tile_copy")
            /\ UNCHANGED << Scheduler, worker, Pool, freed, crashed, notes,
                            preempt, cfg >>

\* region_fill unlocks and returns 0.
RegionFillEnd(r) ==
    /\ client[r].pc = "fill"
    /\ ~Remaining(client[r])
    /\ render' = [render EXCEPT ![r].lock = {}]
    /\ client' = [client EXCEPT ![r].pc = "idle", ![r].ret = 0]
    /\ UNCHANGED << Scheduler, worker, Pool, freed, crashed, asserts, notes,
                    preempt, cfg >>

\* render_close_cb on the close of out or of mask: render_unref, and when
\* the render lives on, the reschedule flag.
Close(r) ==
    \E image \in { "out", "mask" } :
        /\ client[r].pc = "idle"
        /\ client[r][image]
        /\ render' = [render EXCEPT ![r] = render_unref(@)]
        /\ g_assert(render[r].ref_count > 0, "render_unref")
        /\ IF render'[r].ref_count = 0
           THEN /\ client' = [client EXCEPT ![r][image] = FALSE,
                                           ![r].pc = "render_free"]
                /\ UNCHANGED render_reschedule
           ELSE /\ client' = [client EXCEPT ![r][image] = FALSE]
                /\ render_reschedule' = TRUE
        /\ UNCHANGED << render_dirty_all, render_dirty_sem, render_dirty_lock,
                        arrival, worker, Pool, freed, crashed, notes, preempt,
                        cfg >>

\* render_free, called by render_unref in render_close_cb: the list.
CloseFree(r) ==
    /\ client[r].pc = "render_free"
    /\ render_free_remove(r, r)
    /\ client' = [client EXCEPT ![r].pc = "render_free_sem",
                                ![r].flag = g_slist_find(render_dirty_all, r)]
    /\ g_assert(render[r].ref_count = 0, "render_free")
    /\ UNCHANGED << render, worker, Pool, freed, crashed, notes, preempt, cfg >>

\* The rest of render_free, and the reschedule flag of render_close_cb.
CloseFreed(r) ==
    /\ client[r].pc = "render_free_sem"
    /\ render_dirty_sem' = IF client[r].flag
                           THEN im_semaphore_upn(render_dirty_sem, -1)
                           ELSE render_dirty_sem
    /\ render_dirty_lock' = {}
    /\ render' = [render EXCEPT ![r] = render_free(@)]
    /\ freed' = [freed EXCEPT ![r] = @ + 1]
    /\ render_reschedule' = TRUE
    /\ client' = [client EXCEPT ![r].pc = "idle", ![r].flag = FALSE]
    /\ UNCHANGED << render_dirty_all, arrival, worker, Pool, crashed, asserts,
                    notes, preempt, cfg >>

(* ------------------------------------------------------------------ *)
(* The background thread, render_thread_main, and the pool it runs.     *)
(* ------------------------------------------------------------------ *)

\* The threads of the pool.
Threads == 1 .. cfg.nthreads

\* The identity of a pool thread as the holder of a lock.
PoolThread(p) == Worker + p

\* render_dirty_get: im_semaphore_down lets the thread in.
WorkerDown ==
    /\ worker.pc = "down"
    /\ im_semaphore_down_ok(render_dirty_sem)
    /\ render_dirty_sem' = render_dirty_sem - 1
    /\ worker' = [worker EXCEPT !.pc = "get"]
    /\ UNCHANGED << render, render_dirty_all, render_dirty_lock,
                    render_reschedule, arrival, client, Pool, freed, crashed,
                    asserts, notes, preempt, cfg >>

\* The Render after render_ref.
render_ref(R) == [R EXCEPT !.ref_count = @ + 1]

\* render_dirty_get, under dirty_lock: the head of the list is referenced
\* and taken off; NULL when the list is empty.
WorkerGet ==
    /\ worker.pc = "get"
    /\ render_dirty_lock = {}
    /\ IF render_dirty_all = << >>
       THEN /\ worker' = [worker EXCEPT !.pc = "down"]
            /\ UNCHANGED << render, render_dirty_all, arrival, asserts, preempt >>
       ELSE LET r == Head(render_dirty_all)
            IN  /\ g_assert(render[r].ref_count # 0, "render_ref")
                /\ render' = [render EXCEPT ![r] = render_ref(@)]
                /\ render_dirty_all' = g_slist_remove(render_dirty_all, r)
                /\ arrival' = g_slist_remove(arrival, r)
                /\ worker' = [worker EXCEPT !.pc = "reschedule", !.render = r]
                /\ preempt' = 0
    /\ UNCHANGED << render_dirty_sem, render_dirty_lock, render_reschedule,
                    client, Pool, freed, crashed, notes, cfg >>

\* render_reschedule = FALSE, and vips_threadpool_run starts its threads.
WorkerReschedule ==
    /\ worker.pc = "reschedule"
    /\ render_reschedule' = FALSE
    /\ worker' = [worker EXCEPT !.pc = "pool"]
    /\ pool_stop' = FALSE
    /\ thread' = [p \in 1 .. NPool |->
                    IF p \in Threads THEN [thread[p] EXCEPT !.pc = "allocate"]
                    ELSE thread[p]]
    /\ UNCHANGED << render, render_dirty_all, render_dirty_sem,
                    render_dirty_lock, arrival, client, freed, crashed, asserts,
                    notes, preempt, cfg >>

\* render_allocate without its g_mutex_unlock: thread th keeps the lock.
render_allocate_locked(R, th) ==
    IF render_reschedule \/ R.dirty = << >>
    THEN [R |-> [R EXCEPT !.lock = { th }], tile |-> 0, stop |-> TRUE]
    ELSE [R |-> [R EXCEPT !.dirty = g_slist_remove(@, Head(R.dirty)),
                          !.lock = { th }],
          tile |-> Head(R.dirty), stop |-> FALSE]

\* render_allocate by thread th: [R, tile, stop], the lock taken and released.
render_allocate(R, th) ==
    IF render_reschedule \/ R.dirty = << >>
    THEN [R |-> [R EXCEPT !.lock = {}], tile |-> 0, stop |-> TRUE]
    ELSE [R |-> [R EXCEPT !.dirty = g_slist_remove(@, Head(R.dirty)), !.lock = {}],
          tile |-> Head(R.dirty), stop |-> FALSE]

\* A pool thread's turn to allocate: it ends when the pool is stopped, and
\* calls render_allocate otherwise.
PoolAllocate(p) ==
    LET r == worker.render
        a == render_allocate(render[r], PoolThread(p))
    IN  /\ worker.pc = "pool"
        /\ thread[p].pc = "allocate"
        /\ IF pool_stop
           THEN /\ thread' = [thread EXCEPT ![p].pc = "off"]
                /\ UNCHANGED << render, pool_stop >>
           ELSE /\ render[r].lock = {}
                /\ render' = [render EXCEPT ![r] = a.R]
                /\ pool_stop' = a.stop
                /\ thread' = [thread EXCEPT
                                ![p].pc = IF a.stop THEN "off" ELSE "work",
                                ![p].tile = a.tile]
        /\ UNCHANGED << Scheduler, client, worker, freed, crashed, asserts,
                        notes, preempt, cfg >>

\* render_work reads tile->painted: a painted tile is left alone, for an
\* unpainted one im_prepare_to starts on tile->area.
PoolWork(p) ==
    LET r == worker.render
        t == thread[p].tile
    IN  /\ worker.pc = "pool"
        /\ thread[p].pc = "work"
        /\ thread' = [thread EXCEPT
                        ![p].pc = IF render[r].tile[t].painted
                                  THEN "allocate" ELSE "prepare",
                        ![p].tile = IF render[r].tile[t].painted THEN 0 ELSE t,
                        ![p].area = IF render[r].tile[t].painted THEN 0
                                    ELSE render[r].tile[t].area]
        /\ UNCHANGED << render, Scheduler, client, worker, pool_stop, freed,
                        crashed, asserts, notes, preempt, cfg >>

\* What the tile's REGION can hold once im_prepare_to is through: the
\* pixels of the area it was started on, or, when the REGION was given
\* another buffer meanwhile, also nothing that was computed.
PreparedPixels(T, area, ok) ==
    IF ~ok THEN { NoArea }
    ELSE IF T.area = area THEN { area }
    ELSE { area, NoArea }

\* The Tile after render_work's tile->painted = TRUE.
render_work(T, pix) == [T EXCEPT !.pix = pix, !.painted = TRUE]

\* im_prepare_to returns. On an error render_work returns -1 and the pool
\* stops; otherwise the tile is marked painted and notify is called with
\* the tile's area.
PoolPrepared(p) ==
    \E ok \in PrepareOutcomes :
        LET r == worker.render
            t == thread[p].tile
        IN  /\ worker.pc = "pool"
            /\ thread[p].pc = "prepare"
            /\ \E pix \in PreparedPixels(render[r].tile[t], thread[p].area, ok) :
                  render' = [render EXCEPT ![r].tile[t] =
                                IF ok THEN render_work(@, pix)
                                ELSE [@ EXCEPT !.pix = pix]]
            /\ notes' = IF ok /\ render[r].notify
                        THEN [notes EXCEPT ![r][render[r].tile[t].area] = @ + 1]
                        ELSE notes
            /\ pool_stop' = IF ok THEN pool_stop ELSE TRUE
            /\ thread' = [thread EXCEPT ![p].pc = IF ok THEN "allocate" ELSE "off",
                                        ![p].tile = 0, ![p].area = 0]
            /\ UNCHANGED << Scheduler, client, worker, freed, crashed, asserts,
                            preempt, cfg >>

\* Every thread of the pool has ended.
PoolDone == \A p \in Threads : thread[p].pc = "off"

\* vips_threadpool_run returns; render_dirty_put, up to the list update.
WorkerPut ==
    LET r == worker.render
    IN  /\ worker.pc = "pool"
        /\ PoolDone
        /\ render_dirty_put(render[r], r, Worker)
        /\ worker' = [worker EXCEPT !.pc = "put", !.flag = PutAdds(render[r], r)]
        /\ UNCHANGED << render, client, Pool, freed, crashed, asserts, notes,
                        preempt, cfg >>

\* The sort of the worker's render_dirty_put overflows in a build that traps.
WorkerPutTrap ==
    /\ worker.pc = "pool"
    /\ PoolDone
    /\ render_dirty_lock = {}
    /\ PutTraps(render[worker.render], worker.render)
    /\ Abort("render_dirty_sort")

\* render_dirty_put returns to render_thread_main.
WorkerPutUp ==
    /\ worker.pc = "put"
    /\ render_dirty_put_up(worker.flag)
    /\ worker' = [worker EXCEPT !.pc = "unref", !.flag = FALSE]
    /\ UNCHANGED << render, client, Pool, freed, crashed, asserts, notes,
                    preempt, cfg >>

\* The worker's render_unref, up to its call of render_free.
WorkerUnref ==
    LET r == worker.render
    IN  /\ worker.pc = "unref"
        /\ render' = [render EXCEPT ![r] = render_unref(@)]
        /\ g_assert(render[r].ref_count > 0, "render_unref")
        /\ worker' = IF render'[r].ref_count = 0
                     THEN [worker EXCEPT !.pc = "render_free"]
                     ELSE [worker EXCEPT !.pc = "down", !.render = 0]
        /\ UNCHANGED << Scheduler, client, Pool, freed, crashed, notes,
                        preempt, cfg >>

\* render_free, called by the worker's render_unref: the list.
WorkerFree ==
    LET r == worker.render
    IN  /\ worker.pc = "render_free"
        /\ render_free_remove(r, Worker)
        /\ worker' = [worker EXCEPT !.pc = "render_free_sem",
                                    !.flag = g_slist_find(render_dirty_all, r)]
        /\ g_assert(render[r].ref_count = 0, "render_free")
        /\ UNCHANGED << render, client, Pool, freed, crashed, notes, preempt,
                        cfg >>

\* The rest of the worker's render_free.
WorkerFreed ==
    LET r == worker.render
    IN  /\ worker.pc = "render_free_sem"
        /\ render_dirty_sem' = IF worker.flag
                               THEN im_semaphore_upn(render_dirty_sem, -1)
                               ELSE render_dirty_sem
        /\ render_dirty_lock' = {}
        /\ render' = [render EXCEPT ![r] = render_free(@)]
        /\ freed' = [freed EXCEPT ![r] = @ + 1]
        /\ worker' = [worker EXCEPT !.pc = "down", !.render = 0, !.flag = FALSE]
        /\ UNCHANGED << render_dirty_all, render_reschedule, arrival, client,
                        Pool, crashed, asserts, notes, preempt, cfg >>

(* ------------------------------------------------------------------ *)
(* Aborts: what a build with its g_assert()s on, or a use of freed      *)
(* memory, can end in.                                                  *)
(* ------------------------------------------------------------------ *)

\* A g_assert whose condition is false aborts the process.
AssertFails ==
    \/ /\ worker.pc = "get"
       /\ render_dirty_lock = {}
       /\ render_dirty_all # << >>
       /\ render[Head(render_dirty_all)].ref_count = 0
       /\ Abort("render_ref")
    \/ \E r \in Renders :
          /\ client[r].pc = "render_free"
          /\ render[r].ref_count # 0
          /\ Abort("render_free")

\* The worker holds a render that was freed: what it does with it is
\* undefined, and may be a crash.
UseAfterFree ==
    /\ worker.render # 0
    /\ freed[worker.render] > 0
    /\ worker.pc \in { "reschedule", "pool", "unref", "render_free",
                       "render_free_sem" }
    /\ Aborted
    /\ UNCHANGED << render, Scheduler, Pool, freed, asserts, notes, preempt,
                    cfg >>

\* What a thread finds in a mutex after g_mutex_free, when the memory reads
\* as a locked mutex: a holder that is no thread.
Destroyed == Worker + NPool + 1

\* The worker holds a render that was freed: render_free has destroyed
\* render->lock (g_mutex_free), and what g_mutex_lock does with it is
\* undefined. Here the memory reads as a locked mutex, so that the
\* g_mutex_lock of render_allocate does not return.
UseFreedLock ==
    LET r == worker.render
    IN  /\ r # 0
        /\ freed[r] > 0
        /\ worker.pc \in { "reschedule", "pool" }
        /\ render[r].lock = {}
        /\ render' = [render EXCEPT ![r].lock = { Destroyed }]
        /\ UNCHANGED << Scheduler, client, worker, Pool, freed, crashed,
                        asserts, notes, preempt, cfg >>

(* ------------------------------------------------------------------ *)
(* The specification of the scheduler: asynchronous renders, their      *)
(* consumers and the background thread.                                 *)
(* ------------------------------------------------------------------ *)

Next ==
    \/ \E r \in Renders : RegionFill(r)
    \/ \E r \in Renders : TileRequestHit(r)
    \/ \E r \in Renders : TileRequestAsync(r)
    \/ \E r \in Renders : TileRequestTrap(r)
    \/ \E r \in Renders : TileQueued(r)
    \/ \E r \in Renders : RegionFillEnd(r)
    \/ \E r \in Renders : Close(r)
    \/ \E r \in Renders : CloseFree(r)
    \/ \E r \in Renders : CloseFreed(r)
    \/ WorkerDown
    \/ WorkerGet
    \/ WorkerReschedule
    \/ \E p \in 1 .. NPool : PoolAllocate(p)
    \/ \E p \in 1 .. NPool : PoolWork(p)
    \/ \E p \in 1 .. NPool : PoolPrepared(p)
    \/ WorkerPut
    \/ WorkerPutTrap
    \/ WorkerPutUp
    \/ WorkerUnref
    \/ WorkerFree
    \/ WorkerFreed
    \/ AssertFails
    \/ UseAfterFree
    \/ UseFreedLock

Spec == Init /\ [][Next]_vars

(* ------------------------------------------------------------------ *)
(* The specifications of the tile cache: one render that stays open,    *)
(* asynchronous (notify set) or synchronous (notify NULL), its consumer *)
(* and the background thread with its pool. The other renders were      *)
(* closed and freed before.                                             *)
(* ------------------------------------------------------------------ *)

\* A Render after the close of its only image: unreferenced and freed.
ClosedRender == render_free(render_unref(render_new(0, 1, TRUE, FALSE)))

\* The regions the consumer asks for: the first tile, the first two tiles,
\* the second tile, the third tile; and regions of zero area: of no width
\* on the tile grid and off it, and of no height.
Rects == { << 0, tile_width, 1 >>,
           << 0, tile_width + tile_width, 1 >>,
           << tile_width, tile_width, 1 >>,
           << tile_width + tile_width, tile_width, 1 >>,
           << 0, 0, 1 >>,
           << 1, 0, 1 >>,
           << 0, tile_width, 0 >> }

\* The max_tiles the caller of vips_sink_screen passes.
MaxTiles == { -1, 1, 2 }

\* One open render of priority 0; fail says whether the producer's prepare
\* can fail.
InitTiles(fail) ==
    /\ InitScheduler
    /\ \E notify \in BOOLEAN : \E max_tiles \in MaxTiles :
          render = [r \in Renders |->
                      IF r = 1 THEN render_new(0, max_tiles, notify, FALSE)
                      ELSE ClosedRender]
    /\ client = [r \in Renders |-> NewClient(r = 1, FALSE)]
    /\ freed = [r \in Renders |-> IF r = 1 THEN 0 ELSE 1]
    /\ cfg = [rects |-> Rects, fail |-> fail, nthreads |-> NPool]

NextTiles ==
    \/ \E r \in Renders : RegionFill(r)
    \/ \E r \in Renders : TileRequestNull(r)
    \/ \E r \in Renders : TileRequestHit(r)
    \/ \E r \in Renders : TileRequestAsync(r)
    \/ \E r \in Renders : TileQueued(r)
    \/ \E r \in Renders : TileRequestSync(r)
    \/ \E r \in Renders : TilePrepared(r)
    \/ \E r \in Renders : RegionFillEnd(r)
    \/ WorkerDown
    \/ WorkerGet
    \/ WorkerReschedule
    \/ \E p \in 1 .. NPool : PoolAllocate(p)
    \/ \E p \in 1 .. NPool : PoolWork(p)
    \/ \E p \in 1 .. NPool : PoolPrepared(p)
    \/ WorkerPut
    \/ WorkerPutUp
    \/ WorkerUnref

\* The producer's prepare always succeeds.
SpecTiles == InitTiles(FALSE) /\ [][NextTiles]_vars

\* The producer's prepare can fail.
SpecFail == InitTiles(TRUE) /\ [][NextTiles]_vars

(* ------------------------------------------------------------------ *)
(* C1: the render the worker got from render_dirty_get stays alive.     *)
(* ------------------------------------------------------------------ *)

\* The worker is between render_dirty_get's return of r and its own render_unref.
WorkerHolds(r) ==
    worker.render = r /\ worker.pc \in { "reschedule", "pool", "put", "unref" }

\* A thread is in render_free( r ).
Freeing(r) ==
    \/ client[r].pc \in { "render_free", "render_free_sem" }
    \/ worker.render = r /\ worker.pc \in { "render_free", "render_free_sem" }

\* C1: render_dirty_get never references a render whose ref_count is 0 (the
\* g_assert of render_ref holds), a render the worker holds is not freed
\* before the worker's own render_unref, and render_free runs only on a
\* render whose ref_count is 0 and that the worker does not hold.
C1_HeldRenderAlive ==
    /\ "render_ref" \notin asserts
    /\ \A r \in Renders : WorkerHolds(r) => freed[r] = 0
    /\ \A r \in Renders : Freeing(r) => render[r].ref_count = 0 /\ ~WorkerHolds(r)

(* ------------------------------------------------------------------ *)
(* C3: the semaphore counts the renders of the list.                    *)
(* ------------------------------------------------------------------ *)

\* C3: whenever dirty_lock is free and the worker is not between the
\* semaphore wait and the pop of render_dirty_get, render_dirty_sem equals
\* the number of renders in render_dirty_all.
C3_SemCountsList ==
    (~crashed /\ render_dirty_lock = {} /\ worker.pc # "get")
        => render_dirty_sem = Len(render_dirty_all)

(* ------------------------------------------------------------------ *)
(* C2: under fair scheduling a queued tile is painted.                  *)
(* ------------------------------------------------------------------ *)

\* The steps of the background thread and of its pool.
WorkerStep ==
    \/ WorkerDown \/ WorkerGet \/ WorkerReschedule
    \/ WorkerPut \/ WorkerPutUp \/ WorkerUnref \/ WorkerFree \/ WorkerFreed

PoolStep(p) == PoolAllocate(p) \/ PoolWork(p) \/ PoolPrepared(p)

\* The steps of a call a consumer has begun: the call returns.
ClientStep(r) ==
    \/ TileRequestHit(r) \/ TileRequestAsync(r) \/ TileQueued(r)
    \/ RegionFillEnd(r) \/ CloseFree(r) \/ CloseFreed(r)

\* Fair scheduling: every thread that can take a step does so in the end.
\* Consumers need not call region_fill, nor close their images.
Fairness ==
    /\ WF_vars(WorkerStep)
    /\ \A p \in 1 .. NPool : WF_vars(PoolStep(p))
    /\ \A r \in Renders : SF_vars(ClientStep(r))

FairSpec == Init /\ [][Next]_vars /\ Fairness

\* The tile at area a of render r is queued: unpainted, in the dirty list.
QueuedDirty(r, a) ==
    /\ render[r].tiles[a] # 0
    /\ ~render[r].tile[render[r].tiles[a]].painted
    /\ g_slist_find(render[r].dirty, render[r].tiles[a])

\* The tile at area a of render r is painted and notify was called for a.
PaintedNotified(r, a) ==
    /\ render[r].tiles[a] # 0
    /\ render[r].tile[render[r].tiles[a]].painted
    /\ notes[r][a] > 0

\* C2: a tile an asynchronous render queued as dirty is in the end painted
\* and notified, unless the render is closed or the tile is bound to
\* another area. (Runs that end in an abort of the process are left aside:
\* the formula asks nothing of them.)
C2_QueuedTilePainted ==
    \A r \in Renders : \A a \in AllCells :
        QueuedDirty(r, a) ~>
            ( PaintedNotified(r, a) \/ ~client[r].out \/ render[r].tiles[a] = 0
              \/ crashed )

(* ------------------------------------------------------------------ *)
(* C5: a render of higher priority preempts the paint pass.             *)
(* ------------------------------------------------------------------ *)

\* A pool thread is handed a tile in this step.
TileAllocated ==
    \E p \in 1 .. NPool : thread[p].pc = "allocate" /\ thread'[p].pc = "work"

\* render_dirty_get returns a render in this step.
RenderAcquired == worker.pc = "get" /\ worker'.pc = "reschedule"

\* C5: once a render of strictly higher priority was added to
\* render_dirty_all while the worker holds a render for a paint pass
\* (preempt names the added render), the pool is handed no further tile of
\* the held render, and the next render the worker acquires is the added
\* one (unless that one was closed and left the list meanwhile).
C5_HigherPriorityPreempts ==
    [][ /\ (preempt # 0 /\ worker.pc = "pool") => ~TileAllocated
        /\ (preempt # 0 /\ RenderAcquired /\ g_slist_find(render_dirty_all, preempt))
              => worker'.render = preempt ]_vars

(* ------------------------------------------------------------------ *)
(* C6, C7: the order of render_dirty_all.                               *)
(* ------------------------------------------------------------------ *)

\* C6: render_dirty_all is ordered by non-increasing priority, so its head
\* has the maximum priority of the renders in it.
C6_SortedByPriority ==
    \A i \in 1 .. Len(render_dirty_all) : \A j \in 1 .. Len(render_dirty_all) :
        i < j => render[render_dirty_all[i]].priority
                    >= render[render_dirty_all[j]].priority

\* Render a was added to render_dirty_all before render b.
AddedBefore(a, b) ==
    \E i \in 1 .. Len(arrival) : \E j \in 1 .. Len(arrival) :
        i < j /\ arrival[i] = a /\ arrival[j] = b

\* C7: when render_dirty_get returns a render, no render of the same
\* priority that was added before it is still in render_dirty_all: renders
\* of equal priority are served first queued, first served.
C7_EqualPriorityFifo ==
    [][ RenderAcquired =>
          \A q \in Renders :
              ( /\ g_slist_find(render_dirty_all, q)
                /\ render[q].priority = render[worker'.render].priority )
                  => ~AddedBefore(q, worker'.render) ]_vars

(* ------------------------------------------------------------------ *)
(* C4, C8, C9: the tile cache of one render.                            *)
(* ------------------------------------------------------------------ *)

\* C4: whenever the lock of a render is free, every tile of the render
\* that is marked painted holds the pixels prepare computed for the tile's
\* current area.
C4_PaintedPixelsValid ==
    \A r \in Renders :
        render[r].lock = {} =>
            \A t \in 1 .. render[r].ntiles :
                render[r].tile[t].painted
                    => render[r].tile[t].pix = render[r].tile[t].area

\* C8: the tiles a render owns are those of its list all, and a render
\* with max_tiles >= 0 never owns more than max_tiles tiles: a request made
\* at capacity creates none.
C8_TilesBounded ==
    \A r \in Renders :
        /\ render[r].ntiles = Len(render[r].all)
        /\ render[r].max_tiles >= 0 => render[r].ntiles <= render[r].max_tiles

\* A render of one tile was asked for another area when it was at
\* capacity: notify was called for the first area, and the one tile is now
\* the tile of the second.
C8_ReusedAtCapacity ==
    \E r \in Renders :
        /\ render[r].max_tiles = 1
        /\ render[r].ntiles = 1
        /\ notes[r][0] > 0
        /\ render[r].tiles[0] = 0
        /\ render[r].tiles[tile_width] = 1
        /\ render[r].tile[1].area = tile_width

\* The threads of the background side, as holders of a lock.
BackgroundThreads == { Worker } \cup { PoolThread(p) : p \in 1 .. NPool }

\* C9: the consumer of an asynchronous render is never in the producer's
\* prepare, and while a pool thread is in render_work on that render (about
\* to call prepare, or in it) no background thread holds the render's lock.
C9_NoPrepareUnderLock ==
    \A r \in Renders :
        (render[r].notify /\ have_threads) =>
            /\ client[r].pc # "prepare"
            /\ \A p \in 1 .. NPool :
                  (worker.render = r /\ thread[p].pc \in { "work", "prepare" })
                      => render[r].lock \cap BackgroundThreads = {}

\* A pool thread is in prepare for a tile of an asynchronous render while
\* the consumer is inside region_fill, holding the render's lock.
C9_FillDuringPrepare ==
    \E r \in Renders : \E p \in 1 .. NPool :
        /\ render[r].notify /\ have_threads
        /\ worker.render = r
        /\ thread[p].pc = "prepare"
        /\ client[r].pc = "fill"
        /\ render[r].lock = { r }

(* ------------------------------------------------------------------ *)
(* C10: a failure of prepare in a synchronous render.                   *)
(* ------------------------------------------------------------------ *)

\* C10: when prepare failed for a tile that tile_queue painted during a
\* region_fill on a synchronous render, that region_fill returns an error
\* (a value other than 0).
C10_PrepareErrorReturned ==
    \A r \in Renders :
        ( /\ ~(render[r].notify /\ have_threads)
          /\ client[r].pc = "idle"
          /\ client[r].failed )
            => client[r].ret # 0

(* ------------------------------------------------------------------ *)
(* C11: what region_fill leaves in the output region.                   *)
(* ------------------------------------------------------------------ *)

\* tile_request( R, area ) returns NULL in its replacement step: no tile at
\* the area, the cache at capacity, no painted tile in the hash and no tile
\* in dirty.
NullAtCapacity(R, area) ==
    /\ render_tile_lookup(R, area) = 0
    /\ ~(R.ntiles < R.max_tiles \/ R.max_tiles = -1)
    /\ render_tile_get_painted(R) = 0
    /\ render_tile_get_dirty(R) = 0

\* C11: when region_fill passes a grid cell for which tile_request returned
\* NULL in its replacement step, the part of the output region over that
\* cell holds zeros (so that every cell region_fill visited holds the
\* pixels of a tile or zeros).
C11_NullCellZeroed ==
    [][ \A r \in Renders :
          ( /\ client[r].pc = "fill"
            /\ Remaining(client[r])
            /\ NullAtCapacity(render[r], client[r].x)
            /\ client'[r].pc = "fill"
            /\ client'[r].x = client[r].x + tile_width )
              => client'[r].outbuf[client[r].x] = Zeros ]_vars

(* ------------------------------------------------------------------ *)
(* C12: a closed render is freed once.                                  *)
(* ------------------------------------------------------------------ *)

\* C12: a render is freed at most once, only after its images were closed,
\* and a freed render is not in render_dirty_all. (That the render is freed
\* in the end is not part of this formula.)
C12_FreedOnce ==
    \A r \in Renders :
        /\ freed[r] <= 1
        /\ freed[r] > 0 => ( /\ ~client[r].out
                             /\ ~client[r].mask
                             /\ ~g_slist_find(render_dirty_all, r) )

(* ------------------------------------------------------------------ *)
(* C13: the tile a request at capacity reuses.                          *)
(* ------------------------------------------------------------------ *)

\* The consumer of the asynchronous render r asks, in this step, for an
\* area that has no tile while the cache is at capacity, and gets a tile.
ReplacesTile(r) ==
    /\ client[r].pc = "fill"
    /\ Remaining(client[r])
    /\ render[r].notify /\ have_threads
    /\ render[r].tiles[client[r].x] = 0
    /\ ~(render[r].ntiles < render[r].max_tiles \/ render[r].max_tiles = -1)
    /\ client'[r].pc = "put"

\* The tiles of R that the hash holds and that are painted.
PaintedInHash(R) ==
    { t \in 1 .. R.ntiles : R.tile[t].painted /\ \E a \in AllCells : R.tiles[a] = t }

RequestsNotified(r) ==
    /\ client[r].pc = "fill"
    /\ Remaining(client[r])
    /\ render[r].notify /\ have_threads
    /\ notes[r][client[r].x] > 0
    /\ render[r].tiles[client[r].x] # 0
    /\ client'[r] # client[r]

\* C14: a request for an area for which notify was called, and whose tile
\* was not evicted since, copies the pixels painted for that area into the
\* output region: it neither queues the tile again nor fills with zeros.
C14_CopiesPaintedPixels ==
    [][ \A r \in Renders :
          RequestsNotified(r) =>
              /\ client'[r].pc = "fill"
              /\ client'[r].outbuf[client[r].x] = client[r].x ]_vars

(* ------------------------------------------------------------------ *)
(* C15: one notify for each paint of a queued area.                     *)
(* ------------------------------------------------------------------ *)

\* C15: since a tile was last queued for an area, notify was called for
\* that area at most once.
C15_NotifiedOnce ==
    \A r \in Renders : \A a \in AllCells : notes[r][a] <= 1

(* ------------------------------------------------------------------ *)
(* C16: region_fill on a region of zero area.                           *)
(* ------------------------------------------------------------------ *)

\* The output region of consumer c has no width or no height.
ZeroArea(c) == c.right = c.left \/ c.bottom = 0

\* C16: a region_fill on a region of zero area is never inside a
\* tile_request that queues a tile (it requests no tile), and the g_assert
\* of tile_copy never finds an empty overlap.
C16_ZeroAreaNoRequest ==
    /\ \A r \in Renders :
          ZeroArea(client[r]) => client[r].pc \notin { "put", "prepare" }
    /\ "tile_copy" \notin asserts

(* ------------------------------------------------------------------ *)
(* C17: the nesting of render_dirty_lock and the locks of the renders.  *)
(* ------------------------------------------------------------------ *)

\* C17 as stated: no thread holds render_dirty_lock and the lock of a
\* render at once.
C17_NoDirtyLockInsideSinkLock ==
    \A r \in Renders : render[r].lock \cap render_dirty_lock = {}

\* C17, amended: the locks nest one way only. No thread takes the lock of
\* a render while it holds render_dirty_lock.
C17_NoSinkLockInsideDirtyLock ==
    [][ \A r \in Renders :
          (render'[r].lock \ render[r].lock) \cap render_dirty_lock = {} ]_vars

\* A consumer inside region_fill holds the lock of its render and, in
\* render_dirty_put, render_dirty_lock.
C17_ConsumerHoldsBoth ==
    \E r \in Renders :
        /\ client[r].pc = "put"
        /\ render[r].lock = { r }
        /\ render_dirty_lock = { r }

(* ------------------------------------------------------------------ *)
(* C18: the dirty list and the painted flag.                            *)
(* ------------------------------------------------------------------ *)

\* A pool thread has tile t of render r: render_allocate handed it out and
\* render_work has not finished with it.
WithPool(r, t) ==
    /\ worker.render = r
    /\ \E p \in 1 .. NPool : thread[p].pc \in { "work", "prepare" } /\ thread[p].tile = t

C19_NullWhileAllWithPool ==
    \A r \in Renders :
        ( /\ client[r].pc = "fill"
          /\ Remaining(client[r])
          /\ NullAtCapacity(render[r], client[r].x) )
            => \A t \in 1 .. render[r].ntiles : WithPool(r, t)

(* ------------------------------------------------------------------ *)
(* C20: the tiles hash and the all list.                                *)
(* ------------------------------------------------------------------ *)

\* The keys of tiles under which tile t is found.
KeysOf(R, t) == { a \in AllCells : R.tiles[a] = t }

\* C20: every tile found in tiles is in all; every tile in all is found in
\* tiles under one key only, and that key is the tile's area (so no two
\* keys lead to the same tile, and a reused tile is no longer found under
\* its old area).
C20_TilesMatchAll ==
    \A r \in Renders :
        /\ \A a \in AllCells :
              render[r].tiles[a] # 0 => g_slist_find(render[r].all, render[r].tiles[a])
        /\ \A i \in 1 .. Len(render[r].all) :
              KeysOf(render[r], render[r].all[i])
                  = { render[r].tile[render[r].all[i]].area }

\* region_fill went over two cells with a cache of one tile: the tile was
\* copied for the first cell, then reused for the second and is found
\* under the second area only.
C20_ReusedUnderNewKey ==
    \E r \in Renders :
        /\ render[r].max_tiles = 1
        /\ render[r].ntiles = 1
        /\ client[r].pc = "fill"
        /\ client[r].left = 0
        /\ client[r].x = tile_width + tile_width
        /\ client[r].outbuf[0] \in { 0, Zeros }
        /\ render[r].tile[1].area = tile_width
        /\ render[r].tiles[tile_width] = 1
        /\ render[r].tiles[0] = 0

(* ------------------------------------------------------------------ *)
(* C21: a tile is in the dirty list once.                               *)
(* ------------------------------------------------------------------ *)

\* C21: no tile is in the dirty list of a render more than once.
C21_DirtyNoDuplicates ==
    \A r \in Renders :
        \A i, j \in 1 .. Len(render[r].dirty) :
            render[r].dirty[i] = render[r].dirty[j] => i = j

(* ------------------------------------------------------------------ *)
(* C22: no deadlock on the mutexes.                                     *)
(* render_ref and render_unref take ref_count_lock around the count     *)
(* alone and call nothing under it, so they are single steps here and   *)
(* ref_count_lock has no holder of its own; mask_fill takes the lock of *)
(* the render as region_fill does and takes no other lock.              *)
(* ------------------------------------------------------------------ *)

\* The steps of a consumer inside a call, the ones that abort included.
ConsumerStep(r) ==
    \/ ClientStep(r) \/ TileRequestTrap(r) \/ TileRequestNull(r)
    \/ TileRequestSync(r) \/ TilePrepared(r)

\* The steps of the background thread, the ones that abort included.
BackgroundStep == WorkerStep \/ WorkerPutTrap \/ AssertFails \/ UseAfterFree

\* Two asynchronous renders of one tile each, the first of the least
\* priority an int holds and the second of priority 1.
InitLocks ==
    /\ InitScheduler
    /\ render = [r \in Renders |->
                    render_new(IF r = 1 THEN Int32Min ELSE 1, 1, TRUE, FALSE)]
    /\ client = [r \in Renders |-> NewClient(TRUE, FALSE)]
    /\ freed = [r \in Renders |-> 0]
    /\ cfg = [rects |-> { OneTile }, fail |-> FALSE, nthreads |-> 1]

\* The scheduler under fair scheduling, from InitLocks.
FairLocks == InitLocks /\ [][Next]_vars /\ Fairness

\* No thread that holds a mutex is stuck behind a thread that waits for it:
\* the holder of render_dirty_lock can take its next step, and the holder
\* of the lock of a render can take its next step unless another thread
\* holds render_dirty_lock.
NoMutexCycle ==
    ~crashed =>
        /\ render_dirty_lock = { Worker } => ENABLED BackgroundStep
        /\ \A r \in Renders :
              /\ render_dirty_lock = { r } => ENABLED ConsumerStep(r)
              /\ render[r].lock = { r } =>
                    \/ ENABLED ConsumerStep(r)
                    \/ render_dirty_lock \notin { {}, { r } }

C22_WorkerWaitsForConsumer ==
    \E r \in Renders :
        /\ worker.pc = "get"
        /\ render_dirty_lock = { r }
        /\ render[r].lock = { r }
        /\ ~crashed

====
